---- MODULE Spec2Model ----
(***************************************************************************)
(* Model of ScrapeAndDown: the job orchestrator (service.Orchestrator),    *)
(* the Apify metadata client (apify.ApifyScraper), the yt-dlp resolver,    *)
(* the HTTP downloader and the local storage sink.                         *)
(*                                                                         *)
(* Strings the code inspects character by character (URLs, yt-dlp output)  *)
(* are sequences of one-character strings; opaque strings whose content    *)
(* the code never inspects (ids, error texts) are TLA+ strings.            *)
(***************************************************************************)
EXTENDS Integers, Sequences, FiniteSets, TLC

(***************************************************************************)
(* Bounds                                                                  *)
(***************************************************************************)
\* number of pieces a classifier input URL is concatenated from
MaxParts == 2

(***************************************************************************)
(* Character strings                                                       *)
(***************************************************************************)
UpperChars ==
  <<"A","B","C","D","E","F","G","H","I","J","K","L","M",
    "N","O","P","Q","R","S","T","U","V","W","X","Y","Z">>

LowerChars ==
  <<"a","b","c","d","e","f","g","h","i","j","k","l","m",
    "n","o","p","q","r","s","t","u","v","w","x","y","z">>

\* unicode.ToLower on one ASCII character
ToLowerChar(c) ==
  IF \E i \in 1..26 : UpperChars[i] = c
  THEN LowerChars[CHOOSE i \in 1..26 : UpperChars[i] = c]
  ELSE c

\* strings.ToLower
ToLower(s) == [i \in 1..Len(s) |-> ToLowerChar(s[i])]

\* strings.Contains
Contains(s, sub) ==
  \E i \in 0..(Len(s) - Len(sub)) : SubSeq(s, i + 1, i + Len(sub)) = sub

\* the host fragments the two classifiers look for
youtubeCom == <<"y","o","u","t","u","b","e",".","c","o","m">>

youtuBe == <<"y","o","u","t","u",".","b","e">>

tiktokCom == <<"t","i","k","t","o","k",".","c","o","m">>

(***************************************************************************)
(* service.containsAny / service.detectPlatform (orchestrator.go)          *)
(***************************************************************************)
containsAny(s, substrs) ==
  \E k \in 1..Len(substrs) :
    /\ Len(s) >= Len(substrs[k])
    /\ \E i \in 0..(Len(s) - Len(substrs[k])) :
         SubSeq(s, i + 1, i + Len(substrs[k])) = substrs[k]

svcDetectPlatform(url) ==
  IF containsAny(url, <<youtubeCom, youtuBe>>) THEN "youtube"
  ELSE IF containsAny(url, <<tiktokCom>>) THEN "tiktok"
  ELSE "unknown"

(***************************************************************************)
(* apify.detectPlatform (apify scraper)                                    *)
(***************************************************************************)
apifyDetectPlatform(url) ==
  LET lowerURL == ToLower(url) IN
  IF Contains(lowerURL, youtubeCom) \/ Contains(lowerURL, youtuBe) THEN "youtube"
  ELSE IF Contains(lowerURL, tiktokCom) THEN "tiktok"
  ELSE ""

(***************************************************************************)
(* Classifier inputs: URLs concatenated from at most MaxParts pieces       *)
(***************************************************************************)
UrlPieces ==
  { <<"h","t","t","p","s",":","/","/">>,
    youtubeCom,
    <<"Y","o","u","T","u","b","e",".","c","o","m">>,
    youtuBe,
    <<"Y","O","U","T","U",".","B","E">>,
    tiktokCom,
    <<"T","i","k","T","o","k",".","c","o","m">>,
    <<"v","i","m","e","o",".","c","o","m">>,
    <<"/","1">> }

RECURSIVE Concats(_)
Concats(n) ==
  IF n = 0 THEN { <<>> }
  ELSE LET shorter == Concats(n - 1) IN
       shorter \cup { s \o p : s \in shorter, p \in UrlPieces }

URLs == Concats(MaxParts)

(***************************************************************************)
(* JSON result documents as json.Unmarshal sees them.  A document either   *)
(* fails to decode into []map[string]interface{} (valid = FALSE) or is a   *)
(* sequence of records.  A value is a string (t = "str", s its text), any  *)
(* non-string scalar (t = "num"), an array (t = "arr", a its elements) or  *)
(* missing (t = "absent").  An array element is a map (t = "map", u the    *)
(* value under its "url" key) or anything else (t = "other").              *)
(***************************************************************************)
\* items in a result document, elements in a formats array
MaxItems == 2

MaxFormats == 2

Absent == [t |-> "absent", s |-> <<>>, a |-> <<>>]

Num == [t |-> "num", s |-> <<>>, a |-> <<>>]

Str(s) == [t |-> "str", s |-> s, a |-> <<>>]

Arr(a) == [t |-> "arr", s |-> <<>>, a |-> a]

fieldNames == <<"videoUrl", "video_url", "downloadUrl", "download_url", "videoPlayUrl">>

ItemKeys == { fieldNames[k] : k \in 1..Len(fieldNames) } \cup { "formats" }

\* the text stored under field k when it holds a non-empty string
FieldText(k) == << "u", fieldNames[k] >>

ScalarKinds == { "absent", "num", "empty", "text" }

ScalarVal(kind, k) ==
  IF kind = "absent" THEN Absent
  ELSE IF kind = "num" THEN Num
  ELSE IF kind = "empty" THEN Str(<<>>)
  ELSE Str(FieldText(k))

FormatElems ==
  { [t |-> "other", u |-> Absent] }
    \cup { [t |-> "map", u |-> v] : v \in { Absent, Num, Str(<<>>), Str(<<"a">>), Str(<<"b">>) } }

RECURSIVE SeqsUpTo(_, _)
SeqsUpTo(S, n) ==
  IF n = 0 THEN { <<>> }
  ELSE LET shorter == SeqsUpTo(S, n - 1) IN
       shorter \cup { Append(q, x) : q \in shorter, x \in S }

FormatVals(maxFormats) ==
  { Absent, Num } \cup { Arr(a) : a \in SeqsUpTo(FormatElems, maxFormats) }

FirstItems(maxFormats) ==
  { [f \in ItemKeys |->
       IF f = "formats" THEN fm
       ELSE LET k == CHOOSE k \in 1..Len(fieldNames) : fieldNames[k] = f IN
            ScalarVal(kinds[k], k)] :
      kinds \in [1..Len(fieldNames) -> ScalarKinds], fm \in FormatVals(maxFormats) }

\* a record placed after the first one: every field it has would be a hit
OtherItem == [f \in ItemKeys |-> IF f = "formats" THEN Absent ELSE Str(<<"z">>)]

RECURSIVE Padded(_, _)
Padded(it, n) == IF n = 0 THEN <<it>> ELSE Append(Padded(it, n - 1), OtherItem)

InvalidDoc == [valid |-> FALSE, items |-> <<>>]

Doc(items) == [valid |-> TRUE, items |-> items]

Docs(maxItems, maxFormats) ==
  { InvalidDoc, Doc(<<>>) }
    \cup { Doc(Padded(it, n)) : it \in FirstItems(maxFormats), n \in 0..(maxItems - 1) }

(***************************************************************************)
(* ApifyScraper.extractVideoURL                                            *)
(***************************************************************************)
\* formatsFallback that takes the first element of formats
formatsFallback_First(item) ==
  LET formats == item["formats"] IN
  IF formats.t = "arr" /\ Len(formats.a) > 0
  THEN LET format == formats.a[1] IN
       IF format.t = "map" /\ format.u.t = "str" /\ format.u.s # <<>>
       THEN [url |-> format.u.s, err |-> "nil"]
       ELSE [url |-> <<>>, err |-> "could not find video URL in response"]
  ELSE [url |-> <<>>, err |-> "could not find video URL in response"]

formatsFallback(item) ==
  LET formats == item["formats"] IN
  IF formats.t = "arr" /\ Len(formats.a) > 0
  THEN LET format == formats.a[Len(formats.a)] IN
       IF format.t = "map" /\ format.u.t = "str" /\ format.u.s # <<>>
       THEN [url |-> format.u.s, err |-> "nil"]
       ELSE [url |-> <<>>, err |-> "could not find video URL in response"]
  ELSE [url |-> <<>>, err |-> "could not find video URL in response"]

RECURSIVE probeFields(_, _)
probeFields(item, k) ==
  IF k > Len(fieldNames) THEN formatsFallback(item)
  ELSE LET val == item[fieldNames[k]] IN
       IF val.t = "str" /\ val.s # <<>>
       THEN [url |-> val.s, err |-> "nil"]
       ELSE probeFields(item, k + 1)

extractVideoURL(rawData) ==
  IF ~rawData.valid THEN [url |-> <<>>, err |-> "json: cannot unmarshal"]
  ELSE IF Len(rawData.items) = 0
       THEN [url |-> <<>>, err |-> "no results returned from scraper"]
       ELSE probeFields(rawData.items[1], 1)

(***************************************************************************)
(* YtDlpDownloader.GetVideoURL: the tool either fails (cmd.Run error) or   *)
(* prints `out` on standard output.                                        *)
(***************************************************************************)
\* characters the tool prints
MaxOutLen == 2

IsSpace(c) == c \in { " ", "\n", "\t", "\r" }

RECURSIVE TrimLeft(_)
TrimLeft(s) ==
  IF s = <<>> THEN s ELSE IF IsSpace(Head(s)) THEN TrimLeft(Tail(s)) ELSE s

RECURSIVE TrimRight(_)
TrimRight(s) ==
  IF s = <<>> THEN s
  ELSE IF IsSpace(s[Len(s)]) THEN TrimRight(SubSeq(s, 1, Len(s) - 1)) ELSE s

\* strings.TrimSpace
TrimSpace(s) == TrimRight(TrimLeft(s))

\* strings.Split(s, "\n")[0]
RECURSIVE FirstLine(_)
FirstLine(s) ==
  IF s = <<>> THEN s
  ELSE IF Head(s) = "\n" THEN <<>> ELSE <<Head(s)>> \o FirstLine(Tail(s))

ToolOutputs == SeqsUpTo({ "u", "\n" }, MaxOutLen)

\* GetVideoURL that reports blank output as an empty URL without an error
GetVideoURL_EmptyOK(runFails, out) ==
  IF runFails THEN [url |-> <<>>, err |-> "yt-dlp failed"]
  ELSE LET urlStr == TrimSpace(out) IN
       IF urlStr = <<>> THEN [url |-> <<>>, err |-> "nil"]
       ELSE [url |-> FirstLine(urlStr), err |-> "nil"]

\* YtDlpDownloader.GetVideoURL: runFails is cmd.Run() returning an error
GetVideoURL(runFails, out) ==
  IF runFails THEN [url |-> <<>>, err |-> "yt-dlp failed"]
  ELSE LET urlStr == TrimSpace(out) IN
       IF urlStr = <<>> THEN [url |-> <<>>, err |-> "yt-dlp returned empty URL"]
       ELSE [url |-> FirstLine(urlStr), err |-> "nil"]

(***************************************************************************)
(* LocalStorage paths.  A path is the sequence of its components.          *)
(***************************************************************************)
BaseDir == "data"

NoPath == <<>>

\* GetJobPath that leaves the job id out
GetJobPath_Shared(jobID) == << BaseDir, "jobs", "job" >>

GetJobPath(jobID) == << BaseDir, "jobs", jobID >>

\* filepath.Join(dir, name) and dir + "/" + name
JoinPath(dir, name) == Append(dir, name)

(***************************************************************************)
(* State                                                                   *)
(***************************************************************************)
\* runs of RunJob, status polls answered with a non-terminal status, and
\* bytes of a download stream
MaxJobs == 2

MaxPolls == 2

MaxStreamLen == 1

VARIABLES
  pc,               \* position of RunJob / Scrape / waitAndGetResults
  result,           \* the *domain.JobResult RunJob builds (Job embedded)
  err,              \* the error RunJob returned ("nil" for nil)
  now,              \* the clock read by time.Now()
  cancelled,        \* ctx.Done() is closed
  runID,            \* Scrape: id of the actor run
  datasetID,        \* waitAndGetResults: DefaultDatasetID of the last status
  scrapeResult,     \* what Scrape returned
  videoDownloadURL, \* RunJob: the resolved URL
  videoReader,      \* the stream Download returned
  files,            \* file system: path -> [runs, data]
  dirs,             \* file system: directories
  issued,           \* job ids uuid.New() has handed out
  jobsRun,          \* number of RunJob calls started
  calls,            \* collaborator calls of this run, in order
  succeeded,        \* the calls of this run that returned without error
  failed,           \* the calls of this run that returned an error
  requests,         \* HTTP requests of this run's Scrape, with their answers
  failedPhase,      \* the phase whose failure ended this run
  cancelInWait,     \* ctx was cancelled while the poll wait was pending
  fnPc, fnIn, fnOut \* pure functions applied to drawn inputs

jobVars == << pc, result, err, now, cancelled, runID, datasetID, scrapeResult,
              videoDownloadURL, videoReader, files, dirs, issued, jobsRun,
              calls, succeeded, failed, requests, failedPhase, cancelInWait >>

fnVars == << fnPc, fnIn, fnOut >>

vars == << pc, result, err, now, cancelled, runID, datasetID, scrapeResult,
           videoDownloadURL, videoReader, files, dirs, issued, jobsRun,
           calls, succeeded, failed, requests, failedPhase, cancelInWait,
           fnPc, fnIn, fnOut >>

\* URLs jobs are run on
JobURLs ==
  { <<"h","t","t","p","s",":","/","/">> \o h \o <<"/","1">> :
      h \in { youtubeCom, tiktokCom,
              <<"Y","o","u","T","u","b","e",".","c","o","m">>,
              <<"v","i","m","e","o",".","c","o","m">> } }

UUIDs == 1..MaxJobs

RunIDs == { "run1" }

DatasetIDs == { "ds1", "ds2" }

Bytes == { 0, 1 }

Streams == SeqsUpTo(Bytes, MaxStreamLen)

\* result documents the dataset endpoint answers with in a job
RawDocs ==
  { InvalidDoc, Doc(<<>>),
    Doc(<< [f \in ItemKeys |-> Absent] >>),
    Doc(<< [f \in ItemKeys |-> IF f = "videoUrl" THEN Str(<<"v">>) ELSE Absent] >>) }

NoJob == [ID |-> 0, URL |-> <<>>, Platform |-> "", CreatedAt |-> 0]

NoResult ==
  [Job |-> NoJob, MetadataPath |-> NoPath, VideoPath |-> NoPath,
   Success |-> FALSE, ErrorMessage |-> "", CompletedAt |-> 0]

NoScrape == [ok |-> FALSE, RawMetadata |-> InvalidDoc, VideoURL |-> <<>>]

NoReader == [open |-> FALSE, data |-> <<>>, closes |-> 0]

RunInit ==
  /\ pc = "idle"
  /\ result = NoResult
  /\ err = "nil"
  /\ cancelled = FALSE
  /\ runID = ""
  /\ datasetID = ""
  /\ scrapeResult = NoScrape
  /\ videoDownloadURL = <<>>
  /\ videoReader = NoReader
  /\ calls = <<>>
  /\ succeeded = {}
  /\ failed = {}
  /\ requests = <<>>
  /\ failedPhase = "none"
  /\ cancelInWait = FALSE

Init ==
  /\ RunInit
  /\ now = 1
  /\ files = << >>
  /\ dirs = {}
  /\ issued = {}
  /\ jobsRun = 0
  /\ fnPc = "off"
  /\ fnIn = <<>>
  /\ fnOut = <<>>

(***************************************************************************)
(* Orchestrator.RunJob, up to the call of Scrape                           *)
(***************************************************************************)
Running == pc \notin { "idle", "returned", "off" }

jobID == result.Job.ID

\* a file keeps, next to its content, the runs that ever wrote it
WriteFile(path, data) ==
  files' = [q \in (DOMAIN files) \cup { path } |->
              IF q = path
              THEN [runs |-> (IF path \in DOMAIN files THEN files[path].runs ELSE {})
                               \cup { jobsRun },
                    data |-> data]
              ELSE files[q]]

\* the collaborator call op returned without / with an error
Succeeds(op) == succeeded' = succeeded \cup { op } /\ UNCHANGED failed

Fails(op) == failed' = failed \cup { op } /\ UNCHANGED succeeded

\* afterError of a run that tries the failed phase again
afterError_Retry(phase) ==
  CASE phase = "init" -> "InitJob"
    [] phase = "scrape" -> "Scrape"
    [] phase = "saveMetadata" -> "SaveMetadata"
    [] phase = "download" -> "Download"
    [] OTHER -> "SaveVideo"

\* where RunJob goes after a failed phase: each error branch is a return
afterError(phase) == "returned"

\* the call of op failed: RunJob records msg and returns (result, e)
ReturnError(phase, op, msg, e) ==
  /\ result' = [result EXCEPT !.ErrorMessage = msg]
  /\ err' = e
  /\ failedPhase' = phase
  /\ Fails(op)
  /\ pc' = afterError(phase)

\* uuid.New(): an id never handed out before (the ids are interchangeable,
\* the least unused one stands for any of them)
NewUUID == CHOOSE id \in UUIDs \ issued : \A other \in UUIDs \ issued : id <= other

\* NewResult with the flag set from the start
NewResult_SuccessSet(job) ==
  [Job |-> job, MetadataPath |-> NoPath, VideoPath |-> NoPath,
   Success |-> TRUE, ErrorMessage |-> "", CompletedAt |-> 0]

\* line 56: the result RunJob starts from
NewResult(job) ==
  [Job |-> job, MetadataPath |-> NoPath, VideoPath |-> NoPath,
   Success |-> FALSE, ErrorMessage |-> "", CompletedAt |-> 0]

\* lines 46-57: the job record and the empty result
RunJob(url) ==
  /\ pc = "idle"
  /\ LET id == NewUUID IN
       /\ issued' = issued \cup { id }
       /\ result' = NewResult([ID |-> id, URL |-> url,
                               Platform |-> svcDetectPlatform(url), CreatedAt |-> now])
  /\ now' = now + 1
  /\ jobsRun' = jobsRun + 1
  /\ pc' = "InitJob"
  /\ UNCHANGED << err, cancelled, runID, datasetID, scrapeResult, videoDownloadURL,
                  videoReader, files, dirs, calls, succeeded, failed, requests,
                  failedPhase, cancelInWait, fnVars >>

\* lines 59-63 and LocalStorage.InitJob
InitJob ==
  /\ pc = "InitJob"
  /\ calls' = Append(calls, "InitJob")
  /\ \/ /\ dirs' = dirs \cup { GetJobPath(jobID) }
        /\ Succeeds("InitJob")
        /\ pc' = "SaveInput"
        /\ UNCHANGED << result, err, failedPhase >>
     \/ /\ ReturnError("init", "InitJob", "failed to init job",
                       "failed to create job directory")
        /\ UNCHANGED dirs
  /\ UNCHANGED << now, cancelled, runID, datasetID, scrapeResult, videoDownloadURL,
                  videoReader, files, issued, jobsRun, requests, cancelInWait,
                  fnVars >>

\* lines 65-66 and LocalStorage.SaveInput: the error is dropped
SaveInput ==
  /\ pc = "SaveInput"
  /\ calls' = Append(calls, "SaveInput")
  /\ \/ /\ WriteFile(JoinPath(GetJobPath(jobID), "input.json"), result.Job)
        /\ Succeeds("SaveInput")
     \/ /\ UNCHANGED files
        /\ Fails("SaveInput")
  /\ pc' = "Scrape"
  /\ UNCHANGED << result, err, now, cancelled, runID, datasetID, scrapeResult,
                  videoDownloadURL, videoReader, dirs, issued, jobsRun, requests,
                  failedPhase, cancelInWait, fnVars >>

(***************************************************************************)
(* ApifyScraper.Scrape, as called at RunJob lines 70-75: every failure of  *)
(* Scrape makes RunJob return "failed to scrape metadata".                 *)
(***************************************************************************)
youtubeMetadataActorID == "h7sDV53CddomktSi5"

tiktokActorID == "GdWCkxBtKWOsKjdch"

getActorID(platform) ==
  IF platform = "youtube" THEN youtubeMetadataActorID
  ELSE IF platform = "tiktok" THEN tiktokActorID
  ELSE ""

Request(kind, id, status, ds) == [kind |-> kind, id |-> id, status |-> status, ds |-> ds]

ScrapeFails(e) == ReturnError("scrape", "Scrape", "failed to scrape metadata", e)

\* the error of an HTTP call that did not get an answer
TransportError == IF cancelled THEN "context canceled" ELSE "transport error"

\* Scrape lines 48-56: no platform, or no actor for it
ScrapeUnsupported ==
  /\ pc = "Scrape"
  /\ LET platform == apifyDetectPlatform(result.Job.URL) IN
       platform = "" \/ getActorID(platform) = ""
  /\ calls' = Append(calls, "Scrape")
  /\ ScrapeFails("unsupported platform for URL")
  /\ UNCHANGED << now, cancelled, runID, datasetID, scrapeResult, videoDownloadURL,
                  videoReader, files, dirs, issued, jobsRun, requests, cancelInWait,
                  fnVars >>

\* the status codes and bodies the service answers a create request with
CreateCodes == { "200", "201", "400" }

Bodies == { "", "quota exceeded" }

\* created that takes every answer for an acknowledgement
created_Any(code) == TRUE

\* line 111: only 201 Created acknowledges the run
created(code) == code = "201"

\* the error of line 113
startError(code, body) ==
  "failed to start actor: status " \o code \o ", body: " \o body

\* Scrape lines 58-62 and startActorRun.  The last field of a request holds
\* what its answer carried: the body of a refusal, the run id of a 201.
StartActorRun ==
  /\ pc = "Scrape"
  /\ LET platform == apifyDetectPlatform(result.Job.URL)
         actorID == getActorID(platform) IN
       /\ platform # ""
       /\ actorID # ""
       /\ calls' = Append(calls, "Scrape")
       /\ \/ /\ requests' = Append(requests, Request("create", actorID, "error", ""))
             /\ ScrapeFails(TransportError)
             /\ UNCHANGED runID
          \/ /\ ~cancelled
             /\ \E code \in CreateCodes, body \in Bodies :
                  /\ ~created(code)
                  /\ requests' = Append(requests, Request("create", actorID, code, body))
                  /\ ScrapeFails(startError(code, body))
             /\ UNCHANGED runID
          \/ /\ ~cancelled
             /\ \E code \in CreateCodes :
                  /\ created(code)
                  /\ requests' =
                       Append(requests, Request("create", actorID, "decode error", ""))
             /\ ScrapeFails("decode error")
             /\ UNCHANGED runID
          \/ /\ ~cancelled
             /\ \E code \in CreateCodes, id \in RunIDs :
                  /\ created(code)
                  /\ requests' = Append(requests, Request("create", actorID, code, id))
                  /\ runID' = id
             /\ pc' = "select"
             /\ UNCHANGED << result, err, failedPhase, succeeded, failed >>
  /\ UNCHANGED << now, cancelled, datasetID, scrapeResult, videoDownloadURL,
                  videoReader, files, dirs, issued, jobsRun, cancelInWait, fnVars >>

(***************************************************************************)
(* ApifyScraper.waitAndGetResults                                          *)
(***************************************************************************)
Statuses == { "RUNNING", "", "SUCCEEDED", "FAILED", "ABORTED", "TIMED-OUT" }

\* statusSwitch without the TIMED-OUT case
statusSwitch_TimedOutPolls(status) ==
  IF status = "SUCCEEDED" THEN "fetch"
  ELSE IF status \in { "FAILED", "ABORTED" } THEN "fail"
  ELSE "poll"

\* statusSwitch that polls again only while the run reports RUNNING
statusSwitch_UnknownFails(status) ==
  IF status = "SUCCEEDED" THEN "fetch"
  ELSE IF status = "RUNNING" THEN "poll"
  ELSE "fail"

\* the switch of lines 174-179
statusSwitch(status) ==
  IF status = "SUCCEEDED" THEN "fetch"
  ELSE IF status \in { "FAILED", "ABORTED", "TIMED-OUT" } THEN "fail"
  ELSE "poll"

\* statusError that reports every failed run alike
statusError_Generic(status) == "actor run failed"

\* the error of line 178
statusError(status) == "actor run failed with status: " \o status

PollCount == Cardinality({ i \in 1..Len(requests) : requests[i].kind = "status" })

\* timerCase of a plain time.Sleep: the wait always runs to its end
timerCase_Sleep(ctxDone) == TRUE

\* the select of lines 150-154 takes the timer case
timerCase(ctxDone) == ~ctxDone

\* lines 151-152: ctx.Done() is ready
SelectCtxDone ==
  /\ pc = "select"
  /\ cancelled
  /\ ScrapeFails("context canceled")
  /\ UNCHANGED << now, cancelled, runID, datasetID, scrapeResult, videoDownloadURL,
                  videoReader, files, dirs, issued, jobsRun, calls, requests,
                  cancelInWait, fnVars >>

\* line 153: the 3 seconds have passed
SelectTimer ==
  /\ pc = "select"
  /\ timerCase(cancelled)
  /\ pc' = "status"
  /\ UNCHANGED << result, err, now, cancelled, runID, datasetID, scrapeResult,
                  videoDownloadURL, videoReader, files, dirs, issued, jobsRun,
                  calls, succeeded, failed, requests, failedPhase, cancelInWait,
                  fnVars >>

\* lines 156-181: one status request and the switch on its answer
PollStatus ==
  /\ pc = "status"
  /\ \/ /\ requests' = Append(requests, Request("status", runID, "error", ""))
        /\ ScrapeFails(TransportError)
        /\ UNCHANGED datasetID
     \/ /\ ~cancelled
        /\ requests' = Append(requests, Request("status", runID, "decode error", ""))
        /\ ScrapeFails("decode error")
        /\ UNCHANGED datasetID
     \/ /\ ~cancelled
        /\ \E status \in Statuses, ds \in DatasetIDs :
             /\ requests' = Append(requests, Request("status", runID, status, ds))
             /\ datasetID' = ds
             /\ LET next == statusSwitch(status) IN
                  \/ /\ next = "fetch"
                     /\ pc' = "dataset"
                     /\ UNCHANGED << result, err, failedPhase, succeeded, failed >>
                  \/ /\ next = "fail"
                     /\ ScrapeFails(statusError(status))
                  \/ /\ next = "poll"
                     /\ PollCount < MaxPolls
                     /\ pc' = "select"
                     /\ UNCHANGED << result, err, failedPhase, succeeded, failed >>
  /\ UNCHANGED << now, cancelled, runID, scrapeResult, videoDownloadURL, videoReader,
                  files, dirs, issued, jobsRun, calls, cancelInWait, fnVars >>

\* scrapeError that hands the extraction's error on to the caller
scrapeError_Propagates(ex) == ex.err

\* line 71: the error of extractVideoURL is assigned to _
scrapeError(ex) == "nil"

\* getDatasetItems, then Scrape lines 70-76
GetDatasetItems ==
  /\ pc = "dataset"
  /\ \/ /\ requests' = Append(requests, Request("dataset", datasetID, "error", ""))
        /\ ScrapeFails(TransportError)
        /\ UNCHANGED scrapeResult
     \/ /\ ~cancelled
        /\ requests' = Append(requests, Request("dataset", datasetID, "200", ""))
        /\ \E rawData \in RawDocs :
             LET ex == extractVideoURL(rawData) IN
               IF scrapeError(ex) = "nil"
               THEN /\ scrapeResult' = [ok |-> TRUE, RawMetadata |-> rawData,
                                        VideoURL |-> ex.url]
                    /\ Succeeds("Scrape")
                    /\ pc' = "SaveMetadata"
                    /\ UNCHANGED << result, err, failedPhase >>
               ELSE /\ ScrapeFails(scrapeError(ex))
                    /\ UNCHANGED scrapeResult
  /\ UNCHANGED << now, cancelled, runID, datasetID, videoDownloadURL, videoReader,
                  files, dirs, issued, jobsRun, calls, cancelInWait, fnVars >>

\* the caller's context is cancelled (SIGINT / SIGTERM in main)
Cancel ==
  /\ Running
  /\ ~cancelled
  /\ cancelled' = TRUE
  /\ cancelInWait' = (pc = "select")
  /\ UNCHANGED << pc, result, err, now, runID, datasetID, scrapeResult,
                  videoDownloadURL, videoReader, files, dirs, issued, jobsRun,
                  calls, succeeded, failed, requests, failedPhase, fnVars >>

(***************************************************************************)
(* Orchestrator.RunJob after Scrape                                        *)
(***************************************************************************)
\* resultPath that reports the job directory for every artifact
resultPath_JobDir(jobPath, name) == jobPath

\* lines 82 and 121: GetJobPath(jobID) + "/" + name.  GetJobPath is the
\* result of filepath.Join, hence clean, so the suffix adds one component.
resultPath(jobPath, name) == jobPath \o << name >>

\* metadataToSave that writes a result set without its items
metadataToSave_NoItems(sr) == Doc(<<>>)

\* line 78: the bytes handed to SaveMetadata
metadataToSave(sr) == sr.RawMetadata

\* lines 78-82 and LocalStorage.SaveMetadata
SaveMetadata ==
  /\ pc = "SaveMetadata"
  /\ calls' = Append(calls, "SaveMetadata")
  /\ \/ /\ WriteFile(JoinPath(GetJobPath(jobID), "metadata_raw.json"),
                     metadataToSave(scrapeResult))
        /\ result' = [result EXCEPT
                        !.MetadataPath = resultPath(GetJobPath(jobID), "metadata_raw.json")]
        /\ Succeeds("SaveMetadata")
        /\ pc' = "resolve"
        /\ UNCHANGED << err, failedPhase >>
     \/ /\ ReturnError("saveMetadata", "SaveMetadata", "failed to save metadata",
                       "failed to save metadata_raw.json")
        /\ UNCHANGED files
  /\ UNCHANGED << now, cancelled, runID, datasetID, scrapeResult, videoDownloadURL,
                  videoReader, dirs, issued, jobsRun, requests, cancelInWait,
                  fnVars >>

\* lines 103-105: an empty URL ends the run, no message is recorded
CheckResolved(url) ==
  IF url = <<>>
  THEN /\ err' = "no video url resolved"
       /\ failedPhase' = "resolve"
       /\ pc' = "returned"
       /\ UNCHANGED result
  ELSE /\ pc' = "Download"
       /\ UNCHANGED << result, err, failedPhase >>

\* usesTool that sends every platform to the external tool
usesTool_Any(platform) == TRUE

\* line 87: the branch on the job's platform tag
usesTool(platform) == platform = "youtube"

\* lines 87-97 and 103-105, given what GetVideoURL returned
ResolveWith(yt) ==
  /\ pc = "resolve"
  /\ usesTool(result.Job.Platform)
  /\ calls' = Append(calls, "GetVideoURL")
  /\ IF yt.err = "nil" THEN Succeeds("GetVideoURL") ELSE Fails("GetVideoURL")
  /\ IF yt.err = "nil" /\ yt.url # <<>>
     THEN /\ videoDownloadURL' = yt.url
          /\ CheckResolved(yt.url)
     ELSE /\ result' = [result EXCEPT !.ErrorMessage = "yt-dlp failed"]
          /\ err' = yt.err
          /\ failedPhase' = "resolve"
          /\ pc' = "returned"
          /\ UNCHANGED videoDownloadURL
  /\ UNCHANGED << now, cancelled, runID, datasetID, scrapeResult, videoReader,
                  files, dirs, issued, jobsRun, requests, cancelInWait, fnVars >>

\* the youtube branch with YtDlpDownloader.GetVideoURL as the resolver
ResolveYouTube ==
  \E runFails \in BOOLEAN, out \in ToolOutputs :
    /\ cancelled => runFails
    /\ runFails => out = <<>>
    /\ ResolveWith(GetVideoURL(runFails, out))

\* what a function of GetVideoURL's signature, (string, error), can return
ResolverOutcomes ==
  { [url |-> u, err |-> e] : u \in { <<>>, <<"u">> }, e \in { "nil", "yt-dlp failed" } }

\* the youtube branch with a resolver of which only the signature is known
ResolveYouTubeAny ==
  \E yt \in ResolverOutcomes :
    /\ cancelled => yt.err # "nil"
    /\ ResolveWith(yt)

\* lines 98-101, then lines 103-105
ResolveFromScrape ==
  /\ pc = "resolve"
  /\ ~usesTool(result.Job.Platform)
  /\ videoDownloadURL' = scrapeResult.VideoURL
  /\ CheckResolved(scrapeResult.VideoURL)
  /\ UNCHANGED << now, cancelled, runID, datasetID, scrapeResult, videoReader,
                  files, dirs, issued, jobsRun, calls, succeeded, failed, requests,
                  cancelInWait, fnVars >>

\* lines 109-115 and HTTPDownloader.Download
Download ==
  /\ pc = "Download"
  /\ calls' = Append(calls, "Download")
  /\ \/ /\ ReturnError("download", "Download", "failed to download video", TransportError)
        /\ UNCHANGED videoReader
     \/ /\ ~cancelled
        /\ \E data \in Streams :
             videoReader' = [open |-> TRUE, data |-> data, closes |-> 0]
        /\ Succeeds("Download")
        /\ pc' = "SaveVideo"
        /\ UNCHANGED << result, err, failedPhase >>
  /\ UNCHANGED << now, cancelled, runID, datasetID, scrapeResult, videoDownloadURL,
                  files, dirs, issued, jobsRun, requests, cancelInWait, fnVars >>

\* copied that loses the last byte it read
copied_DropsLast(data, n) == SubSeq(data, 1, n - 1)

\* io.Copy(file, reader) that stopped after n bytes
copied(data, n) == SubSeq(data, 1, n)

\* closeReader of a run that has no deferred Close
closeReader_Never(r) == r

\* the deferred videoReader.Close() of line 115
closeReader(r) == [r EXCEPT !.open = FALSE, !.closes = r.closes + 1]

\* lines 121-126: the run succeeded
MarkSuccess(r, path, t) ==
  [r EXCEPT !.VideoPath = path, !.Success = TRUE, !.CompletedAt = t]

\* lines 117-145 and LocalStorage.SaveVideo, with the deferred Close
SaveVideo ==
  /\ pc = "SaveVideo"
  /\ calls' = Append(calls, "SaveVideo")
  /\ videoReader' = closeReader(videoReader)
  /\ LET path == JoinPath(GetJobPath(jobID), "video.mp4") IN
       \/ /\ ReturnError("saveVideo", "SaveVideo", "failed to save video",
                         "failed to create video file")
          /\ UNCHANGED << files, now >>
       \/ /\ \E n \in 0..Len(videoReader.data) :
               WriteFile(path, copied(videoReader.data, n))
          /\ ReturnError("saveVideo", "SaveVideo", "failed to save video",
                         "failed to write video file")
          /\ UNCHANGED now
       \/ /\ WriteFile(path, copied(videoReader.data, Len(videoReader.data)))
          /\ Succeeds("SaveVideo")
          /\ result' = MarkSuccess(result, resultPath(GetJobPath(jobID), "video.mp4"), now)
          /\ now' = now + 1
          /\ pc' = "returned"
          /\ UNCHANGED << err, failedPhase >>
  /\ UNCHANGED << cancelled, runID, datasetID, scrapeResult, videoDownloadURL,
                  dirs, issued, jobsRun, requests, cancelInWait, fnVars >>

\* the program is run again: a new process, a new context, the same disk
NextJob ==
  /\ pc = "returned"
  /\ jobsRun < MaxJobs
  /\ pc' = "idle"
  /\ result' = NoResult
  /\ err' = "nil"
  /\ cancelled' = FALSE
  /\ runID' = ""
  /\ datasetID' = ""
  /\ scrapeResult' = NoScrape
  /\ videoDownloadURL' = <<>>
  /\ videoReader' = NoReader
  /\ calls' = <<>>
  /\ succeeded' = {}
  /\ failed' = {}
  /\ requests' = <<>>
  /\ failedPhase' = "none"
  /\ cancelInWait' = FALSE
  /\ UNCHANGED << now, files, dirs, issued, jobsRun, fnVars >>

Next ==
  \/ \E url \in JobURLs : RunJob(url)
  \/ InitJob
  \/ SaveInput
  \/ ScrapeUnsupported
  \/ StartActorRun
  \/ SelectCtxDone
  \/ SelectTimer
  \/ PollStatus
  \/ GetDatasetItems
  \/ SaveMetadata
  \/ ResolveYouTube
  \/ ResolveFromScrape
  \/ Download
  \/ SaveVideo
  \/ Cancel

\* one run of RunJob
Spec == Init /\ [][Next]_vars

\* one run in which the goroutine is scheduled, the timer fires and every
\* HTTP call comes back (the client has a timeout)
SpecLive ==
  /\ Init
  /\ [][Next]_vars
  /\ WF_vars(SelectCtxDone)
  /\ WF_vars(SelectTimer)
  /\ WF_vars(PollStatus)
  /\ WF_vars(GetDatasetItems)

NextPorts ==
  \/ \E url \in JobURLs : RunJob(url)
  \/ InitJob
  \/ SaveInput
  \/ ScrapeUnsupported
  \/ StartActorRun
  \/ SelectCtxDone
  \/ SelectTimer
  \/ PollStatus
  \/ GetDatasetItems
  \/ SaveMetadata
  \/ ResolveYouTubeAny
  \/ ResolveFromScrape
  \/ Download
  \/ SaveVideo
  \/ Cancel

\* one run of RunJob in which the resolver is any implementation of its
\* signature; the other collaborators are the ones of the repository
SpecPorts == Init /\ [][NextPorts]_vars

NextRerun ==
  \/ Next
  \/ NextJob

\* up to MaxJobs runs, one after the other, on the same disk
SpecRerun == Init /\ [][NextRerun]_vars

(***************************************************************************)
(* The pure functions on drawn inputs: no job runs (pc = "off").           *)
(***************************************************************************)
JobOff ==
  /\ pc = "off"
  /\ result = NoResult
  /\ err = "nil"
  /\ now = 1
  /\ cancelled = FALSE
  /\ runID = ""
  /\ datasetID = ""
  /\ scrapeResult = NoScrape
  /\ videoDownloadURL = <<>>
  /\ videoReader = NoReader
  /\ files = << >>
  /\ dirs = {}
  /\ issued = {}
  /\ jobsRun = 0
  /\ calls = <<>>
  /\ succeeded = {}
  /\ failed = {}
  /\ requests = <<>>
  /\ failedPhase = "none"
  /\ cancelInWait = FALSE

InitClassify ==
  /\ JobOff
  /\ fnPc = "classify"
  /\ fnIn \in URLs
  /\ fnOut = <<>>

\* both classifiers applied to the same URL
Classify ==
  /\ fnPc = "classify"
  /\ fnOut' = [svc |-> svcDetectPlatform(fnIn), apify |-> apifyDetectPlatform(fnIn)]
  /\ fnPc' = "classified"
  /\ UNCHANGED << fnIn, jobVars >>

SpecClassify == InitClassify /\ [][Classify]_vars

InitExtract ==
  /\ JobOff
  /\ fnPc = "extract"
  /\ fnIn \in Docs(MaxItems, MaxFormats)
  /\ fnOut = <<>>

Extract ==
  /\ fnPc = "extract"
  /\ fnOut' = extractVideoURL(fnIn)
  /\ fnPc' = "extracted"
  /\ UNCHANGED << fnIn, jobVars >>

SpecExtract == InitExtract /\ [][Extract]_vars

(***************************************************************************)
(* Properties                                                              *)
(***************************************************************************)
Returned == pc = "returned"

\* C1: in every state of a run, the result's Success flag is set if and only
\* if both Storage.SaveMetadata and Storage.SaveVideo returned without error;
\* a run that failed earlier has Success = FALSE.
C1_SuccessIffBothSaved ==
  /\ result.Success <=> ({ "SaveMetadata", "SaveVideo" } \subseteq succeeded)
  /\ (Returned /\ failedPhase # "none") => ~result.Success

C1_Witness ==
  /\ Returned
  /\ result.Success
  /\ { "SaveMetadata", "SaveVideo" } \subseteq succeeded

\* C2: a job whose Job.Platform is the unknown tag invokes no collaborator and
\* issues no request, and returns the UnsupportedPlatform error.
C2_UnknownPlatformTouchesNothing ==
  result.Job.Platform = "unknown" =>
    /\ calls = <<>>
    /\ requests = <<>>
    /\ files = << >>
    /\ dirs = {}
    /\ Returned => err = "unsupported platform for URL"

ClaimedTerminal == { "SUCCEEDED", "FAILED", "ABORTED", "TIMED-OUT" }

\* C3: after a status response with a terminal status no status request is
\* issued; after FAILED, ABORTED or TIMED-OUT no request at all follows; after
\* SUCCEEDED exactly one request follows, the result-set fetch for the dataset
\* id of that response.
C3_PollingStopsAtTerminal ==
  \A i \in 1..Len(requests) :
    (requests[i].kind = "status" /\ requests[i].status \in ClaimedTerminal) =>
      /\ \A j \in (i + 1)..Len(requests) : requests[j].kind # "status"
      /\ requests[i].status # "SUCCEEDED" => Len(requests) = i
      /\ requests[i].status = "SUCCEEDED" =>
           /\ Len(requests) <= i + 1
           /\ Len(requests) = i => pc = "dataset"
           /\ Len(requests) = i + 1 =>
                /\ requests[i + 1].kind = "dataset"
                /\ requests[i + 1].id = requests[i].ds

C3_Witness ==
  /\ Returned
  /\ \E i \in 1..Len(requests) :
       /\ requests[i].kind = "status"
       /\ requests[i].status = "RUNNING"
       /\ Len(requests) = i + 2
       /\ requests[i + 1].kind = "status"
       /\ requests[i + 1].status = "SUCCEEDED"
       /\ requests[i + 1].ds # requests[i].ds
       /\ requests[i + 2].kind = "dataset"

\* C4: when the context is cancelled while the poll wait is pending, the next
\* thing waitAndGetResults does is return the context's error: no request is
\* issued and no result is returned; a run cancelled in a wait never has a
\* successful Scrape.
C4_CancelInWaitAborts ==
  /\ [](cancelInWait => ~scrapeResult.ok)
  /\ [][(pc = "select" /\ cancelled) =>
          /\ pc' = "returned"
          /\ err' = "context canceled"
          /\ requests' = requests
          /\ scrapeResult' = scrapeResult]_vars

C4_Witness ==
  /\ Returned
  /\ cancelInWait
  /\ err = "context canceled"
  /\ PollCount >= 1
  /\ requests[Len(requests)].status \in { "RUNNING", "" }

\* C5: a run on a youtube or tiktok job in which no collaborator call failed
\* and the resolved URL is not empty returns a nil error, Success = TRUE,
\* non-empty MetadataPath and VideoPath, and the video file holds exactly the
\* bytes of the stream the downloader returned.
C5_HappyPath ==
  ( /\ Returned
    /\ result.Job.Platform \in { "youtube", "tiktok" }
    /\ failed = {}
    /\ videoDownloadURL # <<>> ) =>
      /\ err = "nil"
      /\ result.Success
      /\ result.MetadataPath # NoPath
      /\ result.VideoPath # NoPath
      /\ result.VideoPath \in DOMAIN files
      /\ files[result.VideoPath].data = videoReader.data
      /\ Len(files[result.VideoPath].data) = Len(videoReader.data)

C5_Witness ==
  /\ Returned
  /\ result.Job.Platform = "tiktok"
  /\ failed = {}
  /\ result.Success
  /\ Len(videoReader.data) >= 1

Dir(path) == SubSeq(path, 1, Len(path) - 1)

\* C6: every run gets a job id no earlier run had, GetJobPath maps distinct
\* ids to distinct directories, files of different runs lie in different
\* directories, and no file is ever written by a run other than the one that
\* created it.
C6_RerunsNeverOverwrite ==
  /\ Cardinality(issued) = jobsRun
  /\ \A a, b \in UUIDs : GetJobPath(a) = GetJobPath(b) => a = b
  /\ \A p \in DOMAIN files : Cardinality(files[p].runs) = 1
  /\ \A p, q \in DOMAIN files :
       files[p].runs \cap files[q].runs = {} => Dir(p) # Dir(q)

C6_Witness ==
  /\ Returned
  /\ jobsRun = 2
  /\ result.Success
  /\ \E p \in DOMAIN files :
       /\ files[p].runs = { 1 }
       /\ p[Len(p)] = "input.json"
       /\ files[p].data.URL = result.Job.URL
  /\ \E p \in DOMAIN files : files[p].runs = { 1 } /\ p[Len(p)] = "video.mp4"
  /\ \E p \in DOMAIN files : files[p].runs = { 2 } /\ p[Len(p)] = "video.mp4"

\* the tag the classifier is said to return
ClaimedPlatform(url) ==
  IF Contains(ToLower(url), youtubeCom) \/ Contains(ToLower(url), youtuBe) THEN "youtube"
  ELSE IF Contains(ToLower(url), tiktokCom) THEN "tiktok"
  ELSE "unknown"

\* C7: service.detectPlatform returns youtube for every URL whose lower-cased
\* form contains youtube.com or youtu.be, otherwise tiktok for every URL whose
\* lower-cased form contains tiktok.com, otherwise the unsupported tag.
C7_ClassifierIgnoresCase ==
  fnPc = "classified" => fnOut.svc = ClaimedPlatform(fnIn)

\* C8: for every URL the Orchestrator's and the metadata client's classifiers
\* agree: both youtube, both tiktok, or both their unsupported sentinel.
C8_ClassifiersAgree ==
  fnPc = "classified" =>
    \/ fnOut.svc = "youtube" /\ fnOut.apify = "youtube"
    \/ fnOut.svc = "tiktok" /\ fnOut.apify = "tiktok"
    \/ fnOut.svc = "unknown" /\ fnOut.apify = ""

ClaimedOrder == <<"videoUrl", "video_url", "downloadUrl", "download_url", "videoPlayUrl">>

NonEmptyString(v) == v.t = "str" /\ v.s # <<>>

\* C9: on an empty array extractVideoURL fails with the no-results error;
\* otherwise it returns the first non-empty string among the first record's
\* fields videoUrl, video_url, downloadUrl, download_url, videoPlayUrl, else
\* the url of the last element of formats when that is a map with a non-empty
\* string url, else the not-found error; it never returns an empty URL
\* without an error.
C9_ExtractVideoURL ==
  (fnPc = "extracted" /\ fnIn.valid) =>
    /\ ~(fnOut.url = <<>> /\ fnOut.err = "nil")
    /\ IF fnIn.items = <<>>
       THEN fnOut = [url |-> <<>>, err |-> "no results returned from scraper"]
       ELSE LET item == fnIn.items[1]
                hits == { k \in 1..Len(ClaimedOrder) : NonEmptyString(item[ClaimedOrder[k]]) }
                formats == item["formats"]
            IN  IF hits # {}
                THEN \E k \in hits :
                       /\ \A h \in hits : k <= h
                       /\ fnOut = [url |-> item[ClaimedOrder[k]].s, err |-> "nil"]
                ELSE IF /\ formats.t = "arr"
                        /\ formats.a # <<>>
                        /\ formats.a[Len(formats.a)].t = "map"
                        /\ NonEmptyString(formats.a[Len(formats.a)].u)
                     THEN fnOut = [url |-> formats.a[Len(formats.a)].u.s, err |-> "nil"]
                     ELSE fnOut = [url |-> <<>>,
                                   err |-> "could not find video URL in response"]

C9_Witness ==
  /\ fnPc = "extracted"
  /\ fnIn.valid
  /\ Len(fnIn.items) = 2
  /\ \A k \in 1..Len(ClaimedOrder) : ~NonEmptyString(fnIn.items[1][ClaimedOrder[k]])
  /\ fnIn.items[1]["formats"].t = "arr"
  /\ Len(fnIn.items[1]["formats"].a) = 2
  /\ fnIn.items[1]["formats"].a[1].u = Str(<<"a">>)
  /\ fnIn.items[1]["formats"].a[2].u = Str(<<"b">>)
  /\ fnOut = [url |-> <<"b">>, err |-> "nil"]

PhaseIndex(phase) ==
  CASE phase = "init" -> 1
    [] phase = "scrape" -> 2
    [] phase = "saveMetadata" -> 3
    [] phase = "resolve" -> 4
    [] phase = "download" -> 5
    [] phase = "saveVideo" -> 6
    [] OTHER -> 7

PhaseOfCall(op) ==
  CASE op \in { "InitJob", "SaveInput" } -> 1
    [] op = "Scrape" -> 2
    [] op = "SaveMetadata" -> 3
    [] op = "GetVideoURL" -> 4
    [] op = "Download" -> 5
    [] OTHER -> 6

PhaseMessages(phase) ==
  CASE phase = "init" -> { "failed to init job" }
    [] phase = "scrape" -> { "failed to scrape metadata" }
    [] phase = "saveMetadata" -> { "failed to save metadata" }
    [] phase = "resolve" -> { "yt-dlp failed", "no video url resolved" }
    [] phase = "download" -> { "failed to download video" }
    [] phase = "saveVideo" -> { "failed to save video" }
    [] OTHER -> {}

\* C10: whenever RunJob returns a non-nil error, the result's ErrorMessage is
\* non-empty and names the phase that failed, and no later phase was started.
C10_ErrorMessageNamesPhase ==
  (Returned /\ err # "nil") =>
    /\ result.ErrorMessage # ""
    /\ result.ErrorMessage \in PhaseMessages(failedPhase)
    /\ \A i \in 1..Len(calls) : PhaseOfCall(calls[i]) <= PhaseIndex(failedPhase)

\* the collaborator operations invoked so far
Ops(cs) == { cs[i] : i \in 1..Len(cs) }

\* C11: for a youtube job, when the external tool fails or yields an empty
\* URL, RunJob returns a non-nil error with Success = false, the URL extracted
\* by the metadata client is not used, and Download and SaveVideo are never
\* invoked.
C11_ToolFailureIsFatal ==
  ( /\ Returned
    /\ result.Job.Platform = "youtube"
    /\ "GetVideoURL" \in Ops(calls)
    /\ ("GetVideoURL" \in failed \/ videoDownloadURL = <<>>) ) =>
    /\ err # "nil"
    /\ ~result.Success
    /\ result.VideoPath = NoPath
    /\ videoDownloadURL = <<>>
    /\ "Download" \notin Ops(calls)
    /\ "SaveVideo" \notin Ops(calls)

\* the tool ran and printed only blank output, while the metadata client had
\* extracted a URL
C11_Witness ==
  /\ Returned
  /\ result.Job.Platform = "youtube"
  /\ err = "yt-dlp returned empty URL"
  /\ scrapeResult.VideoURL # <<>>
  /\ "SaveMetadata" \in succeeded

\* resolution of the video URL has been attempted, or a later phase reached
ResolutionAttempted ==
  \/ pc \in { "Download", "SaveVideo" }
  \/ "GetVideoURL" \in Ops(calls)
  \/ "Download" \in Ops(calls)
  \/ videoDownloadURL # <<>>
  \/ failedPhase \in { "resolve", "download", "saveVideo" }

\* C12: when Scrape succeeds, SaveMetadata is invoked with exactly the raw
\* bytes Scrape returned before any URL resolution step is attempted, so a
\* failure of resolution or of a later phase leaves the metadata file written
\* and MetadataPath populated in the returned result.
C12_MetadataSavedBeforeResolution ==
  /\ ("Scrape" \in succeeded /\ pc # "SaveMetadata") => "SaveMetadata" \in Ops(calls)
  /\ "SaveMetadata" \in Ops(calls) => "Scrape" \in succeeded
  /\ ResolutionAttempted =>
       /\ "SaveMetadata" \in succeeded
       /\ result.MetadataPath = JoinPath(GetJobPath(jobID), "metadata_raw.json")
       /\ result.MetadataPath \in DOMAIN files
       /\ files[result.MetadataPath].data = scrapeResult.RawMetadata

\* the tool failed after metadata with one item had been saved
C12_Witness ==
  /\ Returned
  /\ failedPhase = "resolve"
  /\ "GetVideoURL" \in failed
  /\ scrapeResult.RawMetadata \notin { InvalidDoc, Doc(<<>>) }
  /\ result.MetadataPath \in DOMAIN files
  /\ files[result.MetadataPath].data = scrapeResult.RawMetadata

\* C13: every stream Download returned successfully is closed exactly once by
\* the time RunJob returns, both when SaveVideo succeeds and when it fails
\* part-way through the write; no run ends with an open download stream.
C13_StreamClosedOnce ==
  /\ videoReader.closes <= 1
  /\ videoReader.open => (pc = "SaveVideo" /\ videoReader.closes = 0)
  /\ Returned => ~videoReader.open
  /\ (Returned /\ "Download" \in succeeded) =>
       /\ videoReader.closes = 1
       /\ "SaveVideo" \in Ops(calls)

\* SaveVideo failed during the copy and the stream was closed
C13_Witness ==
  /\ Returned
  /\ "Download" \in succeeded
  /\ err = "failed to write video file"
  /\ ~videoReader.open
  /\ videoReader.closes = 1

\* how often an operation was invoked
TimesCalled(op) == Cardinality({ i \in 1..Len(calls) : calls[i] = op })

\* the URLs the external tool can hand back; they share no character with the
\* URLs found in scraped results, so a URL's value tells where it came from
ToolURLs == { GetVideoURL(FALSE, out).url : out \in ToolOutputs } \ { <<>> }

\* the resolution step is over
Resolved ==
  \/ pc \in { "Download", "SaveVideo" }
  \/ Returned /\ failedPhase \in { "none", "resolve", "download", "saveVideo" }

\* C14: the resolution path is fixed by the platform tag alone: a youtube job
\* invokes the external tool exactly once and downloads the tool's output,
\* never ScrapeResult.VideoURL; a tiktok job never invokes the tool and
\* downloads exactly ScrapeResult.VideoURL; no job takes both paths or
\* switches path after a failure.
C14_PathFixedByPlatform ==
  /\ TimesCalled("GetVideoURL") <= 1
  /\ "GetVideoURL" \in Ops(calls) => result.Job.Platform = "youtube"
  /\ "GetVideoURL" \in failed => (videoDownloadURL = <<>> /\ "Download" \notin Ops(calls))
  /\ (result.Job.Platform = "youtube" /\ Resolved) =>
       /\ TimesCalled("GetVideoURL") = 1
       /\ videoDownloadURL \in ToolURLs \cup { <<>> }
       /\ (pc = "Download" \/ "Download" \in Ops(calls)) =>
            /\ videoDownloadURL \in ToolURLs
            /\ videoDownloadURL # scrapeResult.VideoURL
  /\ (result.Job.Platform = "tiktok" /\ Resolved) =>
       /\ "GetVideoURL" \notin Ops(calls)
       /\ videoDownloadURL = scrapeResult.VideoURL
       /\ (pc = "Download" \/ "Download" \in Ops(calls)) => videoDownloadURL # <<>>

\* a youtube job downloaded the tool's URL although the scraped results
\* carried one as well
C14_Witness ==
  /\ result.Job.Platform = "youtube"
  /\ scrapeResult.VideoURL = <<"v">>
  /\ "Download" \in succeeded
  /\ videoDownloadURL = <<"u">>
  /\ TimesCalled("GetVideoURL") = 1

\* C15: when the remote task's status is FAILED, ABORTED or TIMED-OUT, Scrape
\* returns an error naming that status and no ScrapeResult, the result set is
\* never fetched, and the job ends failed with no metadata and no video
\* artifact: SaveMetadata, Download and SaveVideo are never invoked.
C15_FailedRunEndsJob ==
  \A i \in 1..Len(requests) :
    ( /\ requests[i].kind = "status"
      /\ requests[i].status \in { "FAILED", "ABORTED", "TIMED-OUT" } ) =>
      /\ Returned
      /\ Len(requests) = i
      /\ err = "actor run failed with status: " \o requests[i].status
      /\ result.ErrorMessage = "failed to scrape metadata"
      /\ "Scrape" \in failed
      /\ ~scrapeResult.ok
      /\ ~result.Success
      /\ result.MetadataPath = NoPath
      /\ result.VideoPath = NoPath
      /\ Ops(calls) \cap { "SaveMetadata", "GetVideoURL", "Download", "SaveVideo" } = {}
      /\ \A p \in DOMAIN files : p[Len(p)] \notin { "metadata_raw.json", "video.mp4" }

\* the run timed out remotely on the second poll
C15_Witness ==
  /\ Returned
  /\ PollCount = 2
  /\ requests[Len(requests)].kind = "status"
  /\ requests[Len(requests)].status = "TIMED-OUT"
  /\ err = "actor run failed with status: TIMED-OUT"

\* the create answers the claim counts as acknowledging: the 2xx codes
ClaimedAcknowledged == { "200", "201" }

\* C16: when the service does not acknowledge the creation (a non-success
\* status), startActorRun fails with an error carrying the status code and
\* the response body, Scrape returns that failure, and no status poll and no
\* result-set fetch is issued; a poll is only ever issued for a run id
\* obtained from an acknowledged creation.
C16_NoPollWithoutCreation ==
  /\ \A i \in 1..Len(requests) :
       ( /\ requests[i].kind = "create"
         /\ requests[i].status \in CreateCodes \ ClaimedAcknowledged ) =>
         /\ Len(requests) = i
         /\ Returned
         /\ "Scrape" \in failed
         /\ ~scrapeResult.ok
         /\ runID = ""
         /\ err = "failed to start actor: status " \o requests[i].status
                     \o ", body: " \o requests[i].ds
  /\ \A j \in 1..Len(requests) :
       requests[j].kind \in { "status", "dataset" } =>
         /\ requests[1].kind = "create"
         /\ requests[1].status \in ClaimedAcknowledged
         /\ requests[1].ds \in RunIDs
         /\ requests[j].kind = "status" => requests[j].id = requests[1].ds

\* the service refused the creation with a 400 and a body
C16_Witness ==
  /\ Returned
  /\ Len(requests) = 1
  /\ requests[1].kind = "create"
  /\ requests[1].status = "400"
  /\ err = "failed to start actor: status 400, body: quota exceeded"

\* the result set was fetched and no video URL could be extracted from it
ExtractionFailed ==
  /\ \E i \in 1..Len(requests) :
       requests[i].kind = "dataset" /\ requests[i].status = "200"
  /\ scrapeResult.ok => extractVideoURL(scrapeResult.RawMetadata).err # "nil"

\* C17: a failure of video-URL extraction (empty result array, unparsable
\* results, no candidate field) never aborts a youtube job: Scrape returns
\* success with the raw metadata and an empty VideoURL, the metadata is
\* persisted, and the job succeeds whenever the external tool, the downloader
\* and the storage sink succeed.
C17_ExtractionFailureNotFatal ==
  (result.Job.Platform = "youtube" /\ ExtractionFailed) =>
    /\ scrapeResult.ok
    /\ "Scrape" \in succeeded
    /\ scrapeResult.RawMetadata \in RawDocs
    /\ scrapeResult.VideoURL = <<>>
    /\ failedPhase # "scrape"
    /\ "SaveMetadata" \in succeeded =>
         files[result.MetadataPath].data = scrapeResult.RawMetadata
    /\ (Returned /\ failed \cap { "SaveMetadata", "GetVideoURL", "Download", "SaveVideo" } = {}) =>
         /\ result.Success
         /\ err = "nil"
         /\ { "SaveMetadata", "GetVideoURL", "Download", "SaveVideo" } \subseteq succeeded

\* a youtube job succeeded on results whose record has no candidate field
C17_Witness ==
  /\ Returned
  /\ result.Job.Platform = "youtube"
  /\ scrapeResult.RawMetadata = Doc(<< [f \in ItemKeys |-> Absent] >>)
  /\ extractVideoURL(scrapeResult.RawMetadata).err = "could not find video URL in response"
  /\ scrapeResult.VideoURL = <<>>
  /\ result.Success
  /\ files[result.MetadataPath].data = scrapeResult.RawMetadata

\* the failures that have to surface, given the operations that count
SurfacedFailure(ops) ==
  \/ failed \cap ops # {}
  \/ result.Job.Platform = "tiktok" /\ ExtractionFailed /\ scrapeResult.ok

\* C18: whenever a storage-sink operation (InitJob, SaveInput, SaveMetadata,
\* SaveVideo), the download or the tiktok URL extraction fails, RunJob
\* returns a non-nil error and the job does not reach Succeeded.
C18_NoFailureSwallowed ==
  ( /\ Returned
    /\ SurfacedFailure({ "InitJob", "SaveInput", "SaveMetadata", "SaveVideo", "Download" }) ) =>
    /\ err # "nil"
    /\ ~result.Success

\* waitAndGetResults is running
InPollLoop == pc \in { "select", "status", "dataset" }

\* the step is an answer to a status request carrying a non-terminal status
NonTerminalAnswer ==
  /\ pc = "status"
  /\ Len(requests') = Len(requests) + 1
  /\ requests'[Len(requests')].kind = "status"
  /\ requests'[Len(requests')].status \in Statuses \ ClaimedTerminal

\* C19: the poll loop has no ceiling of its own: every non-terminal status
\* answer (unrecognised and empty ones included) received while the context
\* is not cancelled sends the loop back to its 3-second wait, each round
\* issues exactly one status request, and an uncancelled wait always ends in
\* a poll; given that the task eventually reports a terminal status or the
\* caller cancels, waitAndGetResults eventually returns.
C19_PollsUntilTerminal ==
  /\ [][NonTerminalAnswer => (pc' = "select" /\ err' = err /\ failedPhase' = failedPhase)]_vars
  /\ [][(pc = "status" /\ pc' # pc) =>
          /\ requests' = Append(requests, requests'[Len(requests')])
          /\ requests'[Len(requests')].kind = "status"]_vars
  /\ [][(pc = "select" /\ pc' # pc) =>
          IF cancelled THEN pc' = "returned" ELSE pc' = "status"]_vars
  /\ [][(pc' = "select" /\ pc # pc') => pc \in { "Scrape", "status" }]_vars
  /\ InPollLoop ~> ~InPollLoop

\* two non-terminal answers, one of them with an empty status, and the loop
\* is waiting again
C19_Witness ==
  /\ pc = "select"
  /\ ~cancelled
  /\ PollCount = 2
  /\ requests[2].status = ""
  /\ requests[3].status = "RUNNING"

\* the order of the collaborator operations the claim gives
ClaimedSequence(platform) ==
  IF platform = "youtube"
  THEN << "InitJob", "SaveInput", "Scrape", "SaveMetadata", "GetVideoURL",
          "Download", "SaveVideo" >>
  ELSE << "InitJob", "SaveInput", "Scrape", "SaveMetadata", "Download", "SaveVideo" >>

\* C20: within one run the collaborator operations occur in the order
\* InitJob, SaveInput, Scrape, SaveMetadata, URL resolution, Download,
\* SaveVideo, each at most once, and after a recorded failure no further
\* operation is invoked; inside Scrape the requests are one task creation,
\* then status polls, then at most one result-set fetch.
C20_FixedOrderNoRetry ==
  /\ Len(calls) <= Len(ClaimedSequence(result.Job.Platform))
  /\ calls = SubSeq(ClaimedSequence(result.Job.Platform), 1, Len(calls))
  /\ (failedPhase # "none" \/ err # "nil" \/ result.ErrorMessage # "") => Returned
  /\ \A i \in 1..Len(calls) : calls[i] \in failed \ { "SaveInput" } => i = Len(calls)
  /\ requests # <<>> => "Scrape" \in Ops(calls)
  /\ ("Scrape" \in Ops(calls) /\ apifyDetectPlatform(result.Job.URL) # "") =>
       Len(requests) >= 1
  /\ "SaveMetadata" \in Ops(calls) => requests[Len(requests)].kind = "dataset"
  /\ \A i \in 1..Len(requests) :
       /\ requests[i].kind = "create" <=> i = 1
       /\ requests[i].kind = "dataset" =>
            /\ i = Len(requests)
            /\ i > 2
            /\ requests[i - 1].kind = "status"
            /\ requests[i - 1].status = "SUCCEEDED"

\* a youtube run that went through every operation, with two polls
C20_Witness ==
  /\ Returned
  /\ calls = ClaimedSequence("youtube")
  /\ Len(requests) = 4
  /\ requests[1].kind = "create"
  /\ requests[2].kind = "status"
  /\ requests[3].kind = "status"
  /\ requests[4].kind = "dataset"
  /\ "SaveVideo" \in failed

\* C21: in every state of a job MetadataPath is non-empty exactly when
\* SaveMetadata has succeeded and VideoPath exactly when SaveVideo has; each
\* path is the job directory followed by the fixed file name and is the
\* location the storage sink wrote to; a path once set is never cleared or
\* changed, and the embedded Job record is never modified after creation.
C21_PathsAndJobStable ==
  /\ [](pc # "off" =>
         /\ result.MetadataPath # NoPath <=> "SaveMetadata" \in succeeded
         /\ result.VideoPath # NoPath <=> "SaveVideo" \in succeeded
         /\ result.MetadataPath # NoPath =>
              /\ result.MetadataPath = << BaseDir, "jobs", jobID, "metadata_raw.json" >>
              /\ result.MetadataPath \in DOMAIN files
              /\ jobsRun \in files[result.MetadataPath].runs
              /\ files[result.MetadataPath].data = scrapeResult.RawMetadata
         /\ result.VideoPath # NoPath =>
              /\ result.VideoPath = << BaseDir, "jobs", jobID, "video.mp4" >>
              /\ result.VideoPath \in DOMAIN files
              /\ jobsRun \in files[result.VideoPath].runs
              /\ files[result.VideoPath].data = videoReader.data)
  /\ [][result.MetadataPath # NoPath => result'.MetadataPath = result.MetadataPath]_vars
  /\ [][result.VideoPath # NoPath => result'.VideoPath = result.VideoPath]_vars
  /\ [][pc # "idle" => result'.Job = result.Job]_vars

\* the video could not be saved after the metadata path had been set
C21_Witness ==
  /\ Returned
  /\ "SaveVideo" \in failed
  /\ result.MetadataPath = << BaseDir, "jobs", jobID, "metadata_raw.json" >>
  /\ result.VideoPath = NoPath
  /\ result.Job.ID \in issued
  /\ result.Job.CreatedAt = 1

====
